---- MODULE Spec2Model ----
(***************************************************************************)
(* RatioFlip AI: the Generation Client (services/geminiService.ts), the    *)
(* orchestration state machine of App (types.ts) and the intake of         *)
(* Uploader (components/Uploader.tsx).                                     *)
(*                                                                         *)
(* JavaScript strings are TLA+ strings.  A value that may be null or       *)
(* undefined is a sequence of length at most one: Null is <<>> and         *)
(* Some(x) is <<x>>.                                                       *)
(***************************************************************************)
EXTENDS Integers, Sequences, FiniteSets, TLC

VARIABLES
    API_KEY,         \* process.env.API_KEY
    sourceImage,     \* App state: ImageUpload | null
    generatedImage,  \* App state: string | null
    prompt,          \* App state: string
    processing,      \* App state: ProcessingState
    reads,           \* the files of the FileReader reads that have not ended, in start order
    alerts,          \* the number of alert('Please upload an image file.') calls so far
    nReads,          \* the number of files handed to Uploader.processFile so far
    gens,            \* the invocations of handleGenerate that have not ended, in start order
    nGens,           \* the number of invocations of handleGenerate that passed line 61 so far
    done,            \* the invocation of handleGenerate that ended last, if any
    call             \* a direct invocation of generateVerticalImage

vars == <<API_KEY, sourceImage, generatedImage, prompt, processing, reads, alerts, nReads, gens, nGens, done, call>>

appVars == <<sourceImage, generatedImage, prompt, processing, reads, alerts, nReads, gens, nGens, done>>

----------------------------------------------------------------------------
(* Bounds *)

MaxGen == 2          \* invocations of handleGenerate in one behaviour
MaxReads == 2        \* files handed to processFile in one behaviour
MaxCandidates == 2   \* candidates in a remote response
MaxParts == 2        \* content parts in a candidate

----------------------------------------------------------------------------
(* null / undefined, truthiness and || on strings *)

Null == <<>>

Some(x) == <<x>>

\* ToBoolean of a string that may be absent: absent and "" are falsy
Truthy(s) == s # Null /\ s[1] # ""

\* a || b  where a may be absent and b is a string
OrElse(a, b) == IF Truthy(a) THEN a[1] ELSE b

\* s.startsWith(p)
StartsWith(s, p) == Len(s) >= Len(p) /\ SubSeq(s, 1, Len(p)) = p

\* s.includes(p)
Includes(s, p) == \E i \in 1..(Len(s) + 1) : i + Len(p) - 1 <= Len(s) /\ SubSeq(s, i, i + Len(p) - 1) = p

----------------------------------------------------------------------------
(* Generation Client: services/geminiService.ts *)

AI_MODEL == "gemini-2.5-flash-image"

DefaultInstruction == "Transform this image to 9:16 portrait aspect ratio, maintaining the subject and style."

MissingKeyMessage == "API Key is missing. Please check your environment configuration."

NoCandidatesMessage == "No candidates returned from Gemini."

NoImageMessage == "No image generated in the response."

FallbackMessage == "Failed to generate image."

\* the engine's TypeError for candidates[0].content.parts with content undefined
ContentTypeErrorMessage == "Cannot read properties of undefined (reading 'parts')"

\* the engine's TypeError for  for (const part of parts)  with parts undefined
PartsTypeErrorMessage == "parts is not iterable"

PngUriPrefix == "data:image/png;base64,"

\* completions of a function or promise: a returned string or a thrown error
Return(v) == [type |-> "return", value |-> v, message |-> Null]

Throw(m) == [type |-> "throw", value |-> "", message |-> m]

\* new Error(msg)
Error(msg) == [message |-> Some(msg)]

\* if (!process.env.API_KEY)
apiKeyMissing == ~Truthy(API_KEY)

\* mutant of promptText: ?? in place of ||, so an empty prompt is sent as it is
promptText_nullish(p) == p

\* prompt || "Transform this image ..."
promptText(p) == OrElse(Some(p), DefaultInstruction)

\* the argument of ai.models.generateContent
generateContentRequest(imageBase64, mimeType, p) ==
    [model |-> AI_MODEL,
     contents |-> [parts |-> << [inlineData |-> Some([data |-> imageBase64, mimeType |-> mimeType]),
                                 text |-> Null],
                                [inlineData |-> Null,
                                 text |-> Some(promptText(p))] >>],
     config |-> [imageConfig |-> [aspectRatio |-> "9:16"]]]

\* mutant of scanParts: the URI is built for another MIME type
RECURSIVE scanParts_jpeg(_)
scanParts_jpeg(parts) ==
    IF parts = <<>> THEN Null
    ELSE IF Head(parts).inlineData # Null
         THEN Some("data:image/jpeg;base64," \o Head(parts).inlineData[1].data)
         ELSE scanParts_jpeg(Tail(parts))

\* mutant of scanParts: the break is missing, so the last image part wins
RECURSIVE scanParts_noBreak(_)
scanParts_noBreak(parts) ==
    IF parts = <<>> THEN Null
    ELSE LET later == scanParts_noBreak(Tail(parts)) IN
         IF later # Null THEN later
         ELSE IF Head(parts).inlineData # Null
              THEN Some(PngUriPrefix \o Head(parts).inlineData[1].data)
              ELSE Null

\* for (const part of parts) { if (part.inlineData) { imageUri = ...; break; } }
RECURSIVE scanParts(_)
scanParts(parts) ==
    IF parts = <<>> THEN Null
    ELSE IF Head(parts).inlineData # Null
         THEN Some(PngUriPrefix \o Head(parts).inlineData[1].data)
         ELSE scanParts(Tail(parts))

\* candidates[0].content.parts, the scan and the final check of imageUri
extractImage(candidate) ==
    IF candidate.content = Null THEN Throw(Some(ContentTypeErrorMessage))
    ELSE IF candidate.content[1].parts = Null THEN Throw(Some(PartsTypeErrorMessage))
    ELSE LET imageUri == scanParts(candidate.content[1].parts[1]) IN
         IF ~Truthy(imageUri) THEN Throw(Some(NoImageMessage))
         ELSE Return(imageUri[1])

\* mutant of checkResponse: only an absent candidate list is checked, an empty one is indexed
checkResponse_emptyUnchecked(response) ==
    IF response.candidates = Null THEN Throw(Some(NoCandidatesMessage))
    ELSE IF Len(response.candidates[1]) = 0
    THEN Throw(Some("Cannot read properties of undefined (reading 'content')"))
    ELSE extractImage(response.candidates[1][1])

\* the body of the try block after the response has arrived
checkResponse(response) ==
    IF response.candidates = Null \/ Len(response.candidates[1]) = 0
    THEN Throw(Some(NoCandidatesMessage))
    ELSE extractImage(response.candidates[1][1])

\* mutant of catchRethrow: the message is forwarded without the fallback
catchRethrow_noFallback(error) == Throw(error.message)

\* catch (error) { throw new Error(error.message || "Failed to generate image.") }
catchRethrow(error) == Throw(Some(OrElse(error.message, FallbackMessage)))

\* the error caught by the catch block, if any, for a settlement of the network call
caughtError(net) ==
    IF net.type = "reject" THEN Some([message |-> net.message])
    ELSE LET r == checkResponse(net.response[1]) IN
         IF r.type = "throw" THEN Some([message |-> r.message]) ELSE Null

\* the settlement of generateVerticalImage's promise for a settlement of the network call
settleClient(net) ==
    LET e == caughtError(net) IN
    IF e # Null THEN catchRethrow(e[1]) ELSE checkResponse(net.response[1])

\* what is pending until the promise settles
Pending == [type |-> "pending", value |-> "", message |-> Null]

\* mutant of startClient: the credential is checked only after the request was issued
startClient_requestFirst(imageBase64, mimeType, p) ==
    [requests |-> <<generateContentRequest(imageBase64, mimeType, p)>>,
     outcome |-> IF apiKeyMissing THEN Throw(Some(MissingKeyMessage)) ELSE Pending]

\* generateVerticalImage up to its await: the credential check, then the one request
startClient(imageBase64, mimeType, p) ==
    IF apiKeyMissing
    THEN [requests |-> <<>>, outcome |-> Throw(Some(MissingKeyMessage))]
    ELSE [requests |-> <<generateContentRequest(imageBase64, mimeType, p)>>, outcome |-> Pending]

----------------------------------------------------------------------------
(* The remote endpoint: what ai.models.generateContent can settle with *)

Payloads == {"QUJD", "REVG"}

TextPart == [inlineData |-> Null, text |-> Some("Here is your image.")]

ImagePart(d) == [inlineData |-> Some([data |-> d, mimeType |-> "image/jpeg"]), text |-> Null]

PartKinds == {TextPart} \cup {ImagePart(d) : d \in Payloads}

SeqsUpTo(S, n) == UNION {[1..k -> S] : k \in 0..n}

Contents(np) == {Null, Some([parts |-> Null])} \cup {Some([parts |-> Some(ps)]) : ps \in SeqsUpTo(PartKinds, np)}

Candidates(np) == {[content |-> c] : c \in Contents(np)}

\* the candidates after the first one, which the client never reads, carry at most one part
LaterCandidates == Candidates(1)

\* responses of at most nc candidates, the first of which has at most np parts
ResponsesOf(nc, np) ==
    {[candidates |-> Null], [candidates |-> Some(<<>>)]}
    \cup (IF nc = 0 THEN {}
          ELSE {[candidates |-> Some(<<c>> \o cs)] :
                    c \in Candidates(np), cs \in SeqsUpTo(LaterCandidates, nc - 1)})

TransportMessages == {Null, Some(""), Some("fetch failed")}

Resolve(r) == [type |-> "resolve", response |-> Some(r), message |-> Null]

Reject(m) == [type |-> "reject", response |-> Null, message |-> m]

NetOutcomes(nc, np) == {Resolve(r) : r \in ResponsesOf(nc, np)} \cup {Reject(m) : m \in TransportMessages}

ApiKeys == {Null, Some(""), Some("AIza-key")}

----------------------------------------------------------------------------
(* generateVerticalImage called directly, on inputs from bounded sets *)

InitialPrompt == "Convert this landscape image to a 9:16 portrait composition, expanding the background naturally."

Prompts == {"", "Add a cyberpunk neon aesthetic", InitialPrompt}

\* what the user types into the textarea
AppPrompts == {"", InitialPrompt}

ArgBase64 == {Some("iVBO"), Some("/9g=")}

ArgMimeTypes == {"image/png", "image/jpeg"}

IdleCall == [pc |-> "idle", imageBase64 |-> Null, mimeType |-> "", prompt |-> "",
             requests |-> <<>>, net |-> <<>>, outcome |-> Pending]

InitApp ==
    /\ sourceImage = Null
    /\ generatedImage = Null
    /\ prompt = InitialPrompt
    /\ processing = [isLoading |-> FALSE, error |-> Null, progress |-> ""]
    /\ reads = <<>>
    /\ nReads = 0
    /\ alerts = 0
    /\ gens = <<>>
    /\ nGens = 0
    /\ done = Null

ClientInit ==
    /\ API_KEY \in ApiKeys
    /\ call = IdleCall
    /\ InitApp

Invoke(imageBase64, mimeType, p) ==
    /\ call.pc \in {"idle", "settled"}
    /\ LET s == startClient(imageBase64, mimeType, p) IN
       call' = [pc |-> IF s.outcome = Pending THEN "awaiting" ELSE "settled",
                imageBase64 |-> imageBase64, mimeType |-> mimeType, prompt |-> p,
                requests |-> s.requests, net |-> <<>>, outcome |-> s.outcome]
    /\ UNCHANGED <<API_KEY, appVars>>

ClientSettles(net) ==
    /\ call.pc = "awaiting"
    /\ call' = [call EXCEPT !.pc = "settled", !.net = <<net>>, !.outcome = settleClient(net)]
    /\ UNCHANGED <<API_KEY, appVars>>

ClientNext ==
    \/ \E b \in ArgBase64, m \in ArgMimeTypes, p \in Prompts : Invoke(b, m, p)
    \/ \E net \in NetOutcomes(MaxCandidates, MaxParts) : ClientSettles(net)

ClientSpec == ClientInit /\ [][ClientNext]_vars

----------------------------------------------------------------------------
(* Intake: components/Uploader.tsx and the FileReader it uses *)

B64Alphabet == "ABCDEFGHIJKLMNOPQRSTUVWXYZabcdefghijklmnopqrstuvwxyz0123456789+/"

B64Char(n) == SubSeq(B64Alphabet, n + 1, n + 1)

\* the base64 text FileReader.readAsDataURL produces for the bytes of a file
RECURSIVE base64Encode(_)
base64Encode(bytes) ==
    IF Len(bytes) = 0 THEN ""
    ELSE IF Len(bytes) = 1
    THEN B64Char(bytes[1] \div 4) \o B64Char((bytes[1] % 4) * 16) \o "=="
    ELSE IF Len(bytes) = 2
    THEN B64Char(bytes[1] \div 4) \o B64Char((bytes[1] % 4) * 16 + bytes[2] \div 16)
         \o B64Char((bytes[2] % 16) * 4) \o "="
    ELSE B64Char(bytes[1] \div 4) \o B64Char((bytes[1] % 4) * 16 + bytes[2] \div 16)
         \o B64Char((bytes[2] % 16) * 4 + bytes[3] \div 64) \o B64Char(bytes[3] % 64)
         \o base64Encode(SubSeq(bytes, 4, Len(bytes)))

\* reader.result after a successful reader.readAsDataURL(file)
readAsDataURL(file) == "data:" \o file.type \o ";base64," \o base64Encode(file.bytes)

Files == {[type |-> "image/png", bytes |-> <<137, 80, 78>>],
          [type |-> "image/jpeg", bytes |-> <<255, 216>>],
          [type |-> "text/plain", bytes |-> <<104, 105>>]}

\* mutant of isImageFile: every file passes the type check
isImageFile_any(file) == TRUE

\* file.type.startsWith('image/')
isImageFile(file) == StartsWith(file.type, "image/")

----------------------------------------------------------------------------
(* Orchestration: App in types.ts *)

SetMax(S) == CHOOSE x \in S : \A y \in S : y <= x

SetMin(S) == CHOOSE x \in S : \A y \in S : x <= y

\* base64.match(/^data:(.*);base64,/) : the greedy group, or null without a match
matchMimeType(s) ==
    LET ends == {j \in 6..Len(s) : j + 7 <= Len(s) /\ SubSeq(s, j, j + 7) = ";base64,"} IN
    IF StartsWith(s, "data:") /\ ends # {} THEN Some(SubSeq(s, 6, SetMax(ends) - 1)) ELSE Null

\* base64.split(',')[1] : the text between the first and the second comma, or undefined
splitComma1(s) ==
    LET commas == {i \in 1..Len(s) : SubSeq(s, i, i) = ","} IN
    IF commas = {} THEN Null
    ELSE LET first == SetMin(commas)
             later == {i \in commas : i > first}
             stop == IF later = {} THEN Len(s) + 1 ELSE SetMin(later)
         IN Some(SubSeq(s, first + 1, stop - 1))

\* mutant of imageUpload: the data URL is stored as the raw base64 without the split
imageUpload_noSplit(file, base64) ==
    LET match == matchMimeType(base64) IN
    [file |-> file,
     previewUrl |-> base64,
     base64 |-> Some(base64),
     mimeType |-> IF match # Null THEN match[1] ELSE file.type]

\* the ImageUpload handleImageSelected builds
imageUpload(file, base64) ==
    LET match == matchMimeType(base64) IN
    [file |-> file,
     previewUrl |-> base64,
     base64 |-> splitComma1(base64),
     mimeType |-> IF match # Null THEN match[1] ELSE file.type]

IdleProcessing == [isLoading |-> FALSE, error |-> Null, progress |-> ""]

handleImageSelected(file, base64) ==
    /\ sourceImage' = Some(imageUpload(file, base64))
    /\ generatedImage' = Null
    /\ processing' = IdleProcessing

\* mutant of handleClear: the result is not discarded
handleClear_keepsResult ==
    /\ sourceImage' = Null
    /\ UNCHANGED generatedImage
    /\ processing' = IdleProcessing

handleClear ==
    /\ sourceImage' = Null
    /\ generatedImage' = Null
    /\ processing' = IdleProcessing

\* mutant of resultAfter: a failure erases the result
resultAfter_erasesOnFailure(current, completion) ==
    IF completion.type = "return" THEN Some(completion.value) ELSE Null

\* setGeneratedImage(resultUrl) runs only when the await returned
resultAfter(current, completion) ==
    IF completion.type = "return" THEN Some(completion.value) ELSE current

\* catch (err) { setProcessing(prev => ({ ...prev, error: err.message || "Something went wrong" })) }
afterCatch(prev, completion) ==
    IF completion.type = "throw"
    THEN [prev EXCEPT !.error = Some(OrElse(completion.message, "Something went wrong"))]
    ELSE prev

\* mutant of afterFinally: the loading flag is left as it is
afterFinally_keepsLoading(prev) == [prev EXCEPT !.progress = ""]

\* mutant of afterFinally: the progress label is left as it is
afterFinally_keepsProgress(prev) == [prev EXCEPT !.isLoading = FALSE]

\* finally { setProcessing(prev => ({ ...prev, isLoading: false, progress: '' })) }
afterFinally(prev) == [prev EXCEPT !.isLoading = FALSE, !.progress = ""]

\* seq without its i-th element
Remove(seq, i) == SubSeq(seq, 1, i - 1) \o SubSeq(seq, i + 1, Len(seq))

\* mutant of handleGenerate: the stored error survives the trigger
handleGenerate_keepsError ==
    IF sourceImage = Null
    THEN UNCHANGED <<processing, gens, nGens>>
    ELSE /\ processing' = [processing EXCEPT !.isLoading = TRUE, !.progress = "Analyzing image..."]
         /\ nGens' = nGens + 1
         /\ gens' = Append(gens, [id |-> nGens + 1, pc |-> "delay", image |-> sourceImage[1],
                                  prompt |-> prompt, requests |-> <<>>, caught |-> Null,
                                  outcome |-> Pending])

\* handleGenerate up to its first await
handleGenerate ==
    IF sourceImage = Null
    THEN UNCHANGED <<processing, gens, nGens>>
    ELSE /\ processing' = [isLoading |-> TRUE, error |-> Null, progress |-> "Analyzing image..."]
         /\ nGens' = nGens + 1
         /\ gens' = Append(gens, [id |-> nGens + 1, pc |-> "delay", image |-> sourceImage[1],
                                  prompt |-> prompt, requests |-> <<>>, caught |-> Null,
                                  outcome |-> Pending])

\* handleGenerate from the settlement of generateVerticalImage to its end
finishGenerate(i, prev, caught, completion) ==
    /\ generatedImage' = resultAfter(generatedImage, completion)
    /\ processing' = afterFinally(afterCatch(prev, completion))
    /\ gens' = Remove(gens, i)
    /\ done' = Some([gens[i] EXCEPT !.pc = "done", !.caught = caught, !.outcome = completion])

(* Uploader: click or drop of a file; rendered while no source image is held *)
processFile(file) ==
    /\ sourceImage = Null
    /\ ~processing.isLoading
    /\ nReads < MaxReads
    /\ nReads' = nReads + 1
    /\ IF isImageFile(file)
       THEN reads' = Append(reads, file) /\ UNCHANGED alerts
       ELSE alerts' = alerts + 1 /\ UNCHANGED reads
    /\ UNCHANGED <<API_KEY, sourceImage, generatedImage, prompt, processing, gens, nGens, done, call>>

(* reader.onloadend with the data URL as result *)
onloadend(r) ==
    /\ reads' = Remove(reads, r)
    /\ handleImageSelected(reads[r], readAsDataURL(reads[r]))
    /\ UNCHANGED <<API_KEY, prompt, alerts, nReads, gens, nGens, done, call>>

(* reader.onloadend after a failed read: result is null and base64.match throws *)
onloadendNull(r) ==
    /\ reads' = Remove(reads, r)
    /\ UNCHANGED <<API_KEY, sourceImage, generatedImage, prompt, processing, alerts, nReads, gens, nGens, done, call>>

(* the textarea: onChange={(e) => setPrompt(e.target.value)} disabled={processing.isLoading} *)
setPrompt(p) ==
    /\ ~processing.isLoading
    /\ p # prompt
    /\ prompt' = p
    /\ UNCHANGED <<API_KEY, sourceImage, generatedImage, processing, reads, alerts, nReads, gens, nGens, done, call>>

(* the trash button: rendered with a source image, disabled={processing.isLoading} *)
ClickTrash ==
    /\ sourceImage # Null
    /\ ~processing.isLoading
    /\ handleClear
    /\ UNCHANGED <<API_KEY, prompt, reads, alerts, nReads, gens, nGens, done, call>>

(* the Change Image button: rendered with a source image, never disabled *)
ClickChangeImage ==
    /\ sourceImage # Null
    /\ handleClear
    /\ UNCHANGED <<API_KEY, prompt, reads, alerts, nReads, gens, nGens, done, call>>

(* the generate button: disabled={!sourceImage || processing.isLoading} *)
ClickGenerate ==
    /\ sourceImage # Null
    /\ ~processing.isLoading
    /\ nGens < MaxGen
    /\ handleGenerate
    /\ UNCHANGED <<API_KEY, sourceImage, generatedImage, prompt, reads, alerts, nReads, done, call>>

(* the Regenerate button: rendered with a result, disabled={processing.isLoading} *)
ClickRegenerate ==
    /\ generatedImage # Null
    /\ ~processing.isLoading
    /\ nGens < MaxGen
    /\ handleGenerate
    /\ UNCHANGED <<API_KEY, sourceImage, generatedImage, prompt, reads, alerts, nReads, done, call>>

(* the 500 ms timer fires: the progress label changes and the client is called *)
TimerFires(i) ==
    /\ gens[i].pc = "delay"
    /\ LET prev == [processing EXCEPT !.progress = "Generating new aspect ratio..."]
           s == startClient(gens[i].image.base64, gens[i].image.mimeType, gens[i].prompt)
       IN IF s.outcome.type = "throw"
          THEN finishGenerate(i, prev, Some(Error(MissingKeyMessage)), s.outcome)
          ELSE /\ processing' = prev
               /\ gens' = [gens EXCEPT ![i].pc = "net", ![i].requests = s.requests]
               /\ UNCHANGED <<generatedImage, done>>
    /\ UNCHANGED <<API_KEY, sourceImage, prompt, reads, alerts, nReads, nGens, call>>

\* mutant of NetSettles: a rejected network call is issued once more before giving up
NetSettles_retryOnce(i, net) ==
    /\ gens[i].pc = "net"
    /\ IF net.type = "reject" /\ Len(gens[i].requests) < 2
       THEN /\ gens' = [gens EXCEPT ![i].requests = Append(@, @[1])]
            /\ UNCHANGED <<generatedImage, processing, done>>
       ELSE finishGenerate(i, processing, caughtError(net), settleClient(net))
    /\ UNCHANGED <<API_KEY, sourceImage, prompt, reads, alerts, nReads, nGens, call>>

(* the network call of invocation i settles and handleGenerate runs to its end *)
NetSettles(i, net) ==
    /\ gens[i].pc = "net"
    /\ finishGenerate(i, processing, caughtError(net), settleClient(net))
    /\ UNCHANGED <<API_KEY, sourceImage, prompt, reads, alerts, nReads, nGens, call>>

Init ==
    /\ API_KEY \in ApiKeys
    /\ call = IdleCall
    /\ InitApp

Next ==
    \/ \E f \in Files : processFile(f)
    \/ \E r \in 1..Len(reads) : onloadend(r)
    \/ \E r \in 1..Len(reads) : onloadendNull(r)
    \/ \E p \in AppPrompts : setPrompt(p)
    \/ ClickTrash
    \/ ClickChangeImage
    \/ ClickGenerate
    \/ ClickRegenerate
    \/ \E i \in 1..Len(gens) : TimerFires(i)
    \/ \E i \in 1..Len(gens), net \in NetOutcomes(1, 1) : NetSettles(i, net)

Spec == Init /\ [][Next]_vars

\* the timer of the invocation with identity k fires
TimerOf(k) == \E i \in 1..Len(gens) : gens[i].id = k /\ TimerFires(i)

\* the network call of the invocation with identity k settles
SettleOf(k) == \E i \in 1..Len(gens), net \in NetOutcomes(1, 1) : gens[i].id = k /\ NetSettles(i, net)

\* the event loop runs every timer that is due, and every network call settles
FairSpec == Spec /\ \A k \in 1..MaxGen : WF_vars(TimerOf(k)) /\ WF_vars(SettleOf(k))

----------------------------------------------------------------------------
(* Properties *)

\* a step in which an invocation of handleGenerate ends
Ends == done' # done

\* a step in which an invocation of handleGenerate ends in its catch block
EndsRejected == Ends /\ done'[1].outcome.type = "throw"

\* the content parts of a candidate, none when content or parts is absent
PartsOf(candidate) ==
    IF candidate.content = Null \/ candidate.content[1].parts = Null THEN <<>>
    ELSE candidate.content[1].parts[1]

HasInlineImage(parts) == \E k \in 1..Len(parts) : parts[k].inlineData # Null

AnyCandidateHasImage(response) ==
    /\ response.candidates # Null
    /\ \E c \in 1..Len(response.candidates[1]) : HasInlineImage(PartsOf(response.candidates[1][c]))

FirstCandidateHasImage(response) ==
    /\ response.candidates # Null
    /\ Len(response.candidates[1]) > 0
    /\ HasInlineImage(PartsOf(response.candidates[1][1]))

\* the direct call has settled on a response of the remote endpoint
SettledOnResponse == call.pc = "settled" /\ call.net # <<>> /\ call.net[1].type = "resolve"

CallResponse == call.net[1].response[1]

\* C1: at most one invocation of handleGenerate is outstanding in every reachable state
C1_AtMostOneOutstanding == Len(gens) <= 1

\* C2: a step of the clear action, from any state, ends with no source image, no result,
\* no error, isLoading false and an empty progress label
C2_ClearResets ==
    [][(ClickTrash \/ ClickChangeImage) =>
          /\ sourceImage' = Null
          /\ generatedImage' = Null
          /\ processing' = [isLoading |-> FALSE, error |-> Null, progress |-> ""]]_vars

\* cleared while a generation was in flight
C2_Witness ==
    /\ sourceImage = Null /\ generatedImage = Null
    /\ processing = [isLoading |-> FALSE, error |-> Null, progress |-> ""]
    /\ gens # <<>>

\* C3: a step in which a generation rejects leaves the stored result (and the source image
\* and the prompt) as it was
C3_RejectKeepsResult ==
    [][EndsRejected => /\ generatedImage' = generatedImage
                       /\ sourceImage' = sourceImage
                       /\ prompt' = prompt]_vars

\* the second generation failed and the result of the first one is still stored
C3_Witness ==
    /\ done # Null /\ done[1].id = 2 /\ done[1].outcome.type = "throw"
    /\ generatedImage # Null
    /\ processing.error # Null

\* C4: without a configured credential an invocation of generateVerticalImage fails with
\* the configuration error and issues no network call
C4_NoKeyNoCall ==
    (call.pc # "idle" /\ (API_KEY = Null \/ API_KEY = Some(""))) =>
        /\ call.pc = "settled"
        /\ call.outcome.type = "throw"
        /\ call.outcome.message = Some("API Key is missing. Please check your environment configuration.")
        /\ call.requests = <<>>

C4_Witness == call.pc = "settled" /\ API_KEY = Null /\ call.outcome.type = "throw" /\ call.requests = <<>>

\* C5 as stated: an inline image part in any candidate makes the call succeed with a
\* URI that begins with data:image/png;base64,
C5_AnyCandidateSucceeds ==
    (SettledOnResponse /\ AnyCandidateHasImage(CallResponse)) =>
        (call.outcome.type = "return" /\ StartsWith(call.outcome.value, "data:image/png;base64,"))

\* C5 amended: an inline image part among the content parts of the first candidate makes
\* the call succeed with a URI that begins with data:image/png;base64,
C5_FirstCandidateSucceeds ==
    (SettledOnResponse /\ FirstCandidateHasImage(CallResponse)) =>
        (call.outcome.type = "return" /\ StartsWith(call.outcome.value, "data:image/png;base64,"))

\* succeeded on a response of two candidates, the first of which has an image part
C5_Witness ==
    /\ SettledOnResponse /\ FirstCandidateHasImage(CallResponse)
    /\ Len(CallResponse.candidates[1]) = 2
    /\ call.outcome.type = "return"

\* C6: a response without candidates (list absent or empty) makes the call fail with a
\* message that contains "No candidates", and no URI is returned
C6_NoCandidatesFails ==
    (SettledOnResponse /\ (CallResponse.candidates = Null \/ CallResponse.candidates = Some(<<>>))) =>
        /\ call.outcome.type = "throw"
        /\ call.outcome.message # Null
        /\ Includes(call.outcome.message[1], "No candidates")
        /\ call.outcome.value = ""

C6_Witness ==
    /\ SettledOnResponse /\ CallResponse.candidates = Some(<<>>)
    /\ call.outcome.type = "throw"

\* C7: a response whose first candidate has no content part with inline image data
\* (content or part list empty or absent included) makes the call fail with
\* "No image generated in the response."
C7_NoImageFails ==
    (/\ SettledOnResponse /\ CallResponse.candidates # Null
     /\ Len(CallResponse.candidates[1]) > 0
     /\ ~HasInlineImage(PartsOf(CallResponse.candidates[1][1]))) =>
        (call.outcome.type = "throw" /\ call.outcome.message = Some("No image generated in the response."))

\* C8: on success the URI is data:image/png;base64, followed by the payload of the first
\* part with inline image data; parts before it carry none, parts after it do not matter
C8_FirstImagePayload ==
    (SettledOnResponse /\ call.outcome.type = "return") =>
        LET parts == PartsOf(CallResponse.candidates[1][1]) IN
        \E k \in 1..Len(parts) :
            /\ parts[k].inlineData # Null
            /\ \A j \in 1..(k - 1) : parts[j].inlineData = Null
            /\ call.outcome.value = "data:image/png;base64," \o parts[k].inlineData[1].data

\* succeeded on two image parts with different payloads
C8_Witness ==
    /\ SettledOnResponse /\ call.outcome.type = "return"
    /\ LET parts == PartsOf(CallResponse.candidates[1][1]) IN
       /\ Len(parts) = 2
       /\ parts[1].inlineData # Null /\ parts[2].inlineData # Null
       /\ parts[1].inlineData[1].data # parts[2].inlineData[1].data

\* C9: the request has two parts, the inline image with the given base64 and MIME type and
\* then the text, which is the prompt when that is not empty and the default instruction
\* otherwise; the aspect ratio is 9:16
C9_RequestShape ==
    /\ Len(call.requests) <= 1
    /\ call.requests # <<>> =>
        LET req == call.requests[1] IN
        /\ Len(req.contents.parts) = 2
        /\ req.contents.parts[1].inlineData = Some([data |-> call.imageBase64, mimeType |-> call.mimeType])
        /\ req.contents.parts[1].text = Null
        /\ req.contents.parts[2].inlineData = Null
        /\ req.contents.parts[2].text =
              Some(IF call.prompt # "" THEN call.prompt
                   ELSE "Transform this image to 9:16 portrait aspect ratio, maintaining the subject and style.")
        /\ req.config.imageConfig.aspectRatio = "9:16"

\* a request was sent for the empty prompt
C9_Witness == call.requests # <<>> /\ call.prompt = "" /\ call.requests[1].contents.parts[2].text # Some("")

\* C10: a step in which a generation fails ends with the error state set to the message of
\* the underlying error when that has a non-empty one and to "Failed to generate image."
\* otherwise; the stored message is never empty or absent
C10_FailureSetsError ==
    [][EndsRejected =>
          LET underlying == done'[1].caught[1].message IN
          /\ processing'.error =
                Some(IF underlying # Null /\ underlying[1] # "" THEN underlying[1]
                     ELSE "Failed to generate image.")
          /\ processing'.error[1] # ""]_vars

\* a transport error without a message ended as the fallback message
C10_Witness ==
    /\ done # Null /\ done[1].outcome.type = "throw"
    /\ done[1].requests # <<>> /\ done[1].caught = Some([message |-> Null])
    /\ processing.error = Some("Failed to generate image.")


\* C11: with a configured credential an invocation has issued no network call before its
\* client call and exactly one from then on, also after it ended in success or in failure
C11_OneCallPerInvocation ==
    (API_KEY # Null /\ API_KEY # Some("")) =>
        /\ \A i \in 1..Len(gens) :
              /\ gens[i].pc = "delay" => gens[i].requests = <<>>
              /\ gens[i].pc = "net" => Len(gens[i].requests) = 1
        /\ done # Null => Len(done[1].requests) = 1

\* an invocation ended in a failure of its one network call
C11_Witness ==
    /\ API_KEY = Some("AIza-key")
    /\ done # Null /\ done[1].outcome.type = "throw" /\ Len(done[1].requests) = 1
    /\ done[1].caught = Some([message |-> Some("fetch failed")])


\* a step of the generate or the regenerate trigger
Trigger == ClickGenerate \/ ClickRegenerate

\* C12: a trigger with a source image ends Loading (isLoading true, no error, a progress
\* label) with a new invocation that holds the source image and the prompt of that moment;
\* when that invocation calls the client, the request carries the raw base64 and the MIME
\* type of that image and that prompt; a trigger without a source image changes nothing
C12_TriggerInvokesClient ==
    [][/\ (Trigger /\ sourceImage # Null) =>
             /\ processing'.isLoading
             /\ processing'.error = Null
             /\ processing'.progress # ""
             /\ Len(gens') = Len(gens) + 1
             /\ gens'[Len(gens')].pc = "delay"
             /\ gens'[Len(gens')].image = sourceImage[1]
             /\ gens'[Len(gens')].prompt = prompt
       /\ (Trigger /\ sourceImage = Null) => UNCHANGED vars
       /\ \A i \in 1..Len(gens) :
             (gens[i].pc = "delay" /\ Len(gens') = Len(gens) /\ gens'[i].pc = "net") =>
                LET parts == gens'[i].requests[1].contents.parts IN
                /\ gens'[i].image = gens[i].image /\ gens'[i].prompt = gens[i].prompt
                /\ parts[1].inlineData = Some([data |-> gens[i].image.base64,
                                               mimeType |-> gens[i].image.mimeType])
                /\ parts[2].text = Some(IF gens[i].prompt # "" THEN gens[i].prompt
                                        ELSE DefaultInstruction)]_vars

\* a regenerate, with the prompt edited to the empty text, has called the client
C12_Witness ==
    /\ generatedImage # Null /\ sourceImage # Null
    /\ processing.isLoading /\ processing.error = Null
    /\ Len(gens) = 1 /\ gens[1].id = 2 /\ gens[1].pc = "net" /\ gens[1].prompt = ""
    /\ sourceImage[1] = gens[1].image
    /\ gens[1].requests[1].contents.parts[1].inlineData[1].data = sourceImage[1].base64


\* the invocation with identity k has started and has not ended
InFlight(k) == \E i \in 1..Len(gens) : gens[i].id = k

\* C13: every started invocation ends, given that its network call settles; the step in
\* which it ends leaves isLoading false and progress empty and, after a resolve, the
\* returned URI as the result; no other step removes an invocation that has not ended
C13_StartedGenerationEnds ==
    /\ [][/\ Ends => /\ ~processing'.isLoading
                     /\ processing'.progress = ""
                     /\ done'[1].outcome.type \in {"return", "throw"}
                     /\ done'[1].outcome.type = "return" =>
                            generatedImage' = Some(done'[1].outcome.value)
          /\ \A i \in 1..Len(gens) :
                \/ \E j \in 1..Len(gens') : gens'[j].id = gens[i].id
                \/ Ends /\ done'[1].id = gens[i].id]_vars
    /\ \A k \in 1..MaxGen : InFlight(k) ~> ~InFlight(k)

\* the one invocation resolved for the source image still held, and its URI is the result
C13_Witness ==
    /\ done # Null /\ done[1].outcome.type = "return"
    /\ generatedImage = Some(done[1].outcome.value)
    /\ ~processing.isLoading /\ processing.progress = ""
    /\ gens = <<>> /\ nGens = 1
    /\ sourceImage = Some(done[1].image)


\* C14: with a source image and no invocation in flight isLoading is false, so the generate
\* button (disabled = !sourceImage || isLoading) is enabled; it is enabled right after
\* every failure that leaves a source image, and a step of it clears the stored error
C14_RetryEnabled ==
    /\ []((sourceImage # Null /\ gens = <<>>) => ~processing.isLoading)
    /\ [][(EndsRejected /\ sourceImage' # Null) => ~processing'.isLoading]_vars
    /\ [][ClickGenerate => (processing'.error = Null /\ Len(gens') = Len(gens) + 1)]_vars

\* the first generation failed and the retry is in flight with the error cleared
C14_Witness ==
    /\ done # Null /\ done[1].id = 1 /\ done[1].outcome.type = "throw"
    /\ Len(gens) = 1 /\ gens[1].id = 2
    /\ sourceImage = Some(done[1].image)
    /\ processing.error = Null /\ processing.isLoading


\* C15: an accepted upload stores the image of the file read and resets result, error,
\* isLoading and progress; the stored preview URI is data:<mime>;base64, followed by the
\* raw base64, and the raw base64 is the payload alone, without that prefix
C15_UploadReplacesAndResets ==
    /\ [](sourceImage # Null =>
            LET img == sourceImage[1] IN
            /\ img.base64 # Null
            /\ img.previewUrl = "data:" \o img.mimeType \o ";base64," \o img.base64[1]
            /\ img.mimeType = img.file.type
            /\ img.base64[1] = base64Encode(img.file.bytes)
            /\ ~StartsWith(img.base64[1], "data:")
            /\ ~Includes(img.base64[1], ";base64,"))
    /\ [][\A r \in 1..Len(reads) :
             onloadend(r) => /\ sourceImage' # Null
                             /\ sourceImage'[1].file = reads[r]
                             /\ generatedImage' = Null
                             /\ processing' = [isLoading |-> FALSE, error |-> Null, progress |-> ""]]_vars

\* an upload replaced the source image of an invocation that is still in flight
C15_Witness ==
    /\ sourceImage # Null /\ sourceImage[1].base64 = Some("/9g=")
    /\ sourceImage[1].previewUrl = "data:image/jpeg;base64,/9g="
    /\ gens # <<>> /\ gens[1].image.base64 = Some("iVBO")
    /\ generatedImage = Null
    /\ processing = [isLoading |-> FALSE, error |-> Null, progress |-> ""]


NonImage(file) == ~StartsWith(file.type, "image/")

RequestsOf(g) == {g.requests[n] : n \in 1..Len(g.requests)}

CarriesFile(request, file) ==
    LET inline == request.contents.parts[1].inlineData[1] IN
    inline.mimeType = file.type \/ inline.data = Some(base64Encode(file.bytes))

\* C16: a file whose type does not start with image/ is rejected at intake: processFile
\* alerts and changes nothing of the app state, no read of it is started so onImageSelected
\* never gets it, it never becomes the source image, and no request carries its data
C16_NonImageRejected ==
    /\ [][\A f \in Files :
             (processFile(f) /\ NonImage(f)) =>
                 /\ alerts' = alerts + 1
                 /\ UNCHANGED <<sourceImage, generatedImage, prompt, processing, reads, gens, done>>]_vars
    /\ [](\A f \in Files : NonImage(f) =>
            /\ \A r \in 1..Len(reads) : reads[r] # f
            /\ sourceImage # Null => sourceImage[1].file # f
            /\ \A i \in 1..Len(gens) :
                  /\ gens[i].image.file # f
                  /\ \A q \in RequestsOf(gens[i]) : ~CarriesFile(q, f)
            /\ done # Null => \A q \in RequestsOf(done[1]) : ~CarriesFile(q, f))

\* a file was rejected with an alert, nothing was read, and a later image went through a request
C16_Witness ==
    /\ alerts = 1 /\ nReads = 2 /\ reads = <<>>
    /\ sourceImage # Null
    /\ done # Null /\ Len(done[1].requests) = 1


\* C17: in every reachable state without a source image there is no result and no error
C17_NoSourceNoResultNoError ==
    sourceImage = Null => (generatedImage = Null /\ processing.error = Null)

\* C18: every settlement that writes a result or an error belongs to a request made with
\* the source image held at that moment
C18_ResultOfCurrentSource ==
    [][Ends => sourceImage' = Some(done'[1].image)]_vars

\* C19: in every reachable state in which a generation is in flight, isLoading is true
C19_LoadingWhileInFlight == gens # <<>> => processing.isLoading

====
